---- MODULE Spec2Model ----
(***************************************************************************)
(* Model of ac_shifting_leds.js: two UDP telemetry clients (ACClient, the  *)
(* handshake protocol, and CodemastersClient, the push protocol), each     *)
(* driving one ACLeds controller that maps engine RPM to the five shifting *)
(* LEDs of the wheel.  Every JavaScript callback (datagram arrival,        *)
(* watchdog interval, flash interval, start/stop) is one atomic action:    *)
(* Node runs each callback to completion on a single thread.               *)
(*                                                                         *)
(* Handlers are written as functions from a state record to a state        *)
(* record so that nested calls compose as they do in the source.  An       *)
(* uncaught exception or process.exit() sets proc and every later          *)
(* statement of the handler is skipped.                                    *)
(***************************************************************************)
EXTENDS Integers, Sequences, FiniteSets, TLC

VARIABLES
  proc,                  \* "running" | "crashed" (uncaught exception) | "exited" (exit(1))
  now,                   \* Date.now(), in ms since the process started
  udpClient,             \* per client: "undefined" | "null" | "socket"
  reconnectTimer,        \* per client: "undefined" | "null" | "active"
  timerDue,              \* per client: time of the next firing of reconnectTimer
  lastMessageTimestamp,  \* per client: undefined or a time
  handshakeStage,        \* ACClient.handshakeStage
  device,                \* per controller: "undefined" | "hid"
  peakRPM,               \* per controller: undefined or a number
  flashLEDsTimer,        \* per controller: "undefined" | "active" (the handle)
  liveFlashTimers,       \* per controller: number of intervals started and not cleared
  previousLEDMask,       \* per controller: undefined or a mask
  LEDsOn,                \* per controller: "undefined" | "true" | "false"
  enableRedlineFlashing, \* per controller: constructor argument
  hidOpens,              \* number of successful new hid.HID(...) calls
  liveSockets,           \* per client: sockets created and not closed
  liveReconnectTimers,   \* per client: reconnect intervals set and not cleared
  pendingSendErrors,     \* failed sends whose error callback has not run yet
  lastWrite,             \* per controller: mask of the last device.write, or undefined
  hist,                  \* per controller: mask and device writes of the latest carInfo
  last,                  \* the callback that produced this state, and its input
  out                    \* what that callback did: sends, emits, writes, ...

vars == <<proc, now, udpClient, reconnectTimer, timerDue, lastMessageTimestamp,
          handshakeStage, device, peakRPM, flashLEDsTimer, liveFlashTimers,
          previousLEDMask, LEDsOn, enableRedlineFlashing, hidOpens,
          liveSockets, liveReconnectTimers, pendingSendErrors, lastWrite,
          hist, last, out>>

(***************************************************************************)
(* Values and bounds                                                       *)
(***************************************************************************)
\* A JavaScript `undefined` held in a numeric field.
undefined == 0 - 1

\* The main entry point creates one CodemastersClient and one ACClient,
\* each wrapped in its own ACLeds; a controller is named after its client.
Clients == {"ac", "cm"}

OPERATION_ID_HANDSHAKE == 0
OPERATION_ID_SUBSCRIBE_UPDATE == 1
OPERATION_ID_SUBSCRIBE_DISMISS == 3

\* Period of the reconnect interval and the silence threshold.
ReconnectIntervalMs == 2000
SilenceLimitMs == 2000
\* Default peak RPM set by onConnected.
DefaultPeakRPM == 7000
\* All five LEDs.
FullMask == 31

\* Time advances in steps of half the watchdog period, up to MaxNow.
TimeStep == ReconnectIntervalMs \div 2
MaxNow == 4000
\* The clock bound used when both clients run.
MainMaxNow == 2000

\* Datagram lengths tried, one byte short of and exactly at the last checked
\* read of each layout: 208 (handshake response), 328 (car info) for
\* protocol A; 152 (first float), 256 (second float) for protocol B.
ACLens == {207, 208, 327, 328}
CMLens == {151, 255, 256}

\* engineRPM values carried by protocol-A datagrams.
ACRpms == {0, 1400, 2800, 3500, 4550, 6300, 6650, 8000}

\* Raw float fields of protocol-B datagrams (the client multiplies by 10).
CMRpmFields == {0, 140, 500, 665, 800}
CMPeakFields == {0, 600, 700}

(***************************************************************************)
(* BufferReader                                                            *)
(***************************************************************************)
\* One field read: its width, and whether the read is bounds-checked
\* (Buffer.readUInt32LE/readUInt8/readFloatLE throw ERR_OUT_OF_RANGE;
\* Buffer.toString clamps and skip only moves the cursor).
stringUtf16(length) == [size |-> length, checked |-> FALSE]
uint32 == [size |-> 4, checked |-> TRUE]
uint8 == [size |-> 1, checked |-> TRUE]
float == [size |-> 4, checked |-> TRUE]
skip(skipLen) == [size |-> skipLen, checked |-> FALSE]

Rep(f, n) == [i \in 1..n |-> f]

\* Reads the fields of layout from index i on, cursor at offset, over a
\* buffer of len bytes; TRUE iff no read throws.
RECURSIVE ReadAll(_, _, _, _)
ReadAll(layout, i, offset, len) ==
  IF i > Len(layout) THEN TRUE
  ELSE IF layout[i].checked /\ offset + layout[i].size > len THEN FALSE
  ELSE ReadAll(layout, i + 1, offset + layout[i].size, len)

RECURSIVE LayoutSize(_, _)
LayoutSize(layout, i) ==
  IF i > Len(layout) THEN 0 ELSE layout[i].size + LayoutSize(layout, i + 1)

HandshakeResponseLayout ==
  <<stringUtf16(100), stringUtf16(100), uint32, uint32,
    stringUtf16(100), stringUtf16(100)>>

RTCarInfoLayout ==
  <<uint32, uint32>> \o Rep(float, 3) \o Rep(uint8, 6) \o <<skip(2)>>
  \o Rep(float, 3) \o Rep(uint32, 4)
  \o Rep(float, 5) \o <<uint32, float>>
  \o Rep(float, 14 * 4)
  \o <<float, float>> \o Rep(float, 3)

CodemastersLayout == <<skip(37 * 4), float, skip(25 * 4), float>>

\* Whether each parser returns (TRUE) or throws (FALSE), per datagram length;
\* tabulated once over the lengths tried.
HandshakeResponseReadable ==
  [len \in ACLens |-> ReadAll(HandshakeResponseLayout, 1, 0, len)]
RTCarInfoReadable == [len \in ACLens |-> ReadAll(RTCarInfoLayout, 1, 0, len)]
CodemastersReadable == [len \in CMLens |-> ReadAll(CodemastersLayout, 1, 0, len)]

_parseHandshakeResponse(len) == HandshakeResponseReadable[len]
_parseRTCarInfo(len) == RTCarInfoReadable[len]
_parseCodemasters(len) == CodemastersReadable[len]

(***************************************************************************)
(* The state as one record, and the log of a callback's effects            *)
(***************************************************************************)
Cur ==
  [proc |-> proc, now |-> now, udpClient |-> udpClient,
   reconnectTimer |-> reconnectTimer, timerDue |-> timerDue,
   lastMessageTimestamp |-> lastMessageTimestamp,
   handshakeStage |-> handshakeStage, device |-> device, peakRPM |-> peakRPM,
   flashLEDsTimer |-> flashLEDsTimer, liveFlashTimers |-> liveFlashTimers,
   previousLEDMask |-> previousLEDMask, LEDsOn |-> LEDsOn,
   enableRedlineFlashing |-> enableRedlineFlashing, hidOpens |-> hidOpens,
   liveSockets |-> liveSockets, liveReconnectTimers |-> liveReconnectTimers,
   pendingSendErrors |-> pendingSendErrors, lastWrite |-> lastWrite,
   hist |-> hist, last |-> last, out |-> out]

Set(s) ==
  /\ proc' = s.proc
  /\ now' = s.now
  /\ udpClient' = s.udpClient
  /\ reconnectTimer' = s.reconnectTimer
  /\ timerDue' = s.timerDue
  /\ lastMessageTimestamp' = s.lastMessageTimestamp
  /\ handshakeStage' = s.handshakeStage
  /\ device' = s.device
  /\ peakRPM' = s.peakRPM
  /\ flashLEDsTimer' = s.flashLEDsTimer
  /\ liveFlashTimers' = s.liveFlashTimers
  /\ previousLEDMask' = s.previousLEDMask
  /\ LEDsOn' = s.LEDsOn
  /\ enableRedlineFlashing' = s.enableRedlineFlashing
  /\ hidOpens' = s.hidOpens
  /\ liveSockets' = s.liveSockets
  /\ liveReconnectTimers' = s.liveReconnectTimers
  /\ pendingSendErrors' = s.pendingSendErrors
  /\ lastWrite' = s.lastWrite
  /\ hist' = s.hist
  /\ last' = s.last
  /\ out' = s.out

\* An effect is <<kind, client or controller, value>>.
Log(s, kind, c, v) == [s EXCEPT !.out = Append(@, <<kind, c, v>>)]

\* The record of the callback being run; the fields a callback does not
\* use keep these values.
NoStep ==
  [op |-> "init", c |-> "ac", len |-> 0, rpm |-> undefined,
   hint |-> undefined, openOk |-> TRUE, sendOk |-> TRUE,
   denom |-> undefined, mask |-> 0]

\* The state a callback starts from: nothing logged yet.
Begin(step) == [Cur EXCEPT !.out = <<>>, !.last = step]

\* An exception nobody catches terminates the Node process.
Throw(s) == [s EXCEPT !.proc = "crashed"]

IsUndefined(v) == v \in {"undefined", "null"}

(***************************************************************************)
(* UDPGameClient                                                           *)
(***************************************************************************)
_stopReconnectTimer(s, c) ==
  IF ~IsUndefined(s.reconnectTimer[c])
  THEN Log([s EXCEPT !.reconnectTimer[c] = "null",
                     !.liveReconnectTimers[c] = @ - 1],
           "clearInterval", c, ReconnectIntervalMs)
  ELSE s

\* this.reconnectTimer = setInterval(..., 2000)
ArmReconnectTimer(s, c) ==
  Log([s EXCEPT !.reconnectTimer[c] = "active",
                !.liveReconnectTimers[c] = @ + 1,
                !.timerDue[c] = s.now + ReconnectIntervalMs],
      "setInterval", c, ReconnectIntervalMs)

_setupReconnectTimer(s, c) == ArmReconnectTimer(_stopReconnectTimer(s, c), c)

\* this.udpClient.close(); this.udpClient = null
CloseSocket(s, c) ==
  Log([s EXCEPT !.udpClient[c] = "null", !.liveSockets[c] = @ - 1],
      "close", c, 0)

\* The socket closed with the reconnect interval left running.
UDPGameClient_disconnect_KeepTimer(s, c) ==
  IF IsUndefined(s.udpClient[c]) THEN s ELSE CloseSocket(s, c)

UDPGameClient_disconnect(s, c) ==
  IF IsUndefined(s.udpClient[c]) THEN s
  ELSE CloseSocket(_stopReconnectTimer(s, c), c)

sendUDPMessage(s, c, operationId) ==
  IF ~IsUndefined(s.udpClient[c]) THEN Log(s, "send", c, operationId) ELSE s

(***************************************************************************)
(* ACLeds                                                                  *)
(***************************************************************************)
RECURSIVE BitOr(_, _)
BitOr(a, b) ==
  IF a = 0 THEN b
  ELSE IF b = 0 THEN a
  ELSE (IF a % 2 = 1 \/ b % 2 = 1 THEN 1 ELSE 0) + 2 * BitOr(a \div 2, b \div 2)

\* The comparison made non-strict.
FracGreater_OrEqual(rpm, peak, num) ==
  IF peak = undefined THEN FALSE
  ELSE IF peak = 0 THEN rpm > 0
  ELSE rpm * 100 >= num * peak

\* rpm / peak > num / 100 in JavaScript: a division by undefined and 0 / 0
\* give NaN, which is greater than nothing; a positive rpm over 0 gives
\* Infinity.  For the integers used here the double quotient compares with
\* the threshold exactly as the rationals do.
FracGreater(rpm, peak, num) ==
  IF peak = undefined THEN FALSE
  ELSE IF peak = 0 THEN rpm > 0
  ELSE rpm * 100 > num * peak

\* if (cond) { LEDMask |= bit; }
OrIf(LEDMask, cond, bit) == IF cond THEN BitOr(LEDMask, bit) ELSE LEDMask

\* Bit 3 assigned instead of or-ed in.
LEDMaskOf_Assign(rpm, peak) ==
  OrIf(IF FracGreater(rpm, peak, 65) THEN 8
       ELSE OrIf(OrIf(1, FracGreater(rpm, peak, 20), 2),
                 FracGreater(rpm, peak, 40), 4),
       FracGreater(rpm, peak, 90), 16)

LEDMaskOf(rpm, peak) ==
  OrIf(OrIf(OrIf(OrIf(1, FracGreater(rpm, peak, 20), 2),
                 FracGreater(rpm, peak, 40), 4),
            FracGreater(rpm, peak, 65), 8),
       FracGreater(rpm, peak, 90), 16)

\* device.write([0xf8, 0x12, mask, 0, 0, 0, 1])
DeviceWrite(s, k, mask) == Log([s EXCEPT !.lastWrite[k] = mask], "write", k, mask)

connectToWheelIfNeeded(s, k) ==
  IF s.device[k] # "undefined" THEN s
  ELSE IF s.last.openOk
       THEN Log([s EXCEPT !.device[k] = "hid", !.hidOpens = @ + 1], "open", k, 0)
       ELSE Log([s EXCEPT !.proc = "exited"], "exit", k, 1)

\* The peak overwritten by every rpm.
RaisedPeak_Always(rpm, peak) == rpm

\* if (rpm > this.peakRPM) { this.peakRPM = rpm; } -- the comparison is
\* false while peakRPM is undefined.
RaisedPeak(rpm, peak) == IF peak # undefined /\ rpm > peak THEN rpm ELSE peak

\* The peak after the raise is the denominator of rpmFrac.
RaisePeak(s, k, rpm) ==
  [s EXCEPT !.peakRPM[k] = RaisedPeak(rpm, @),
            !.last.denom = RaisedPeak(rpm, s.peakRPM[k])]

\* The comparison that suppresses a redundant write, never true.
SameMask_Never(LEDMask, previous) == FALSE

\* LEDMask == this.previousLEDMask
SameMask(LEDMask, previous) == LEDMask = previous

\* this.flashLEDsTimer = setInterval(..., 100)
StartFlashing(s, k) ==
  Log([s EXCEPT !.flashLEDsTimer[k] = "active", !.liveFlashTimers[k] = @ + 1],
      "setInterval", k, 100)

\* The flash interval left running.
StopFlashing_KeepTimer(s, k) == s

\* if (this.flashLEDsTimer) { clearInterval(...); this.flashLEDsTimer = undefined; }
StopFlashing(s, k) ==
  IF s.flashLEDsTimer[k] # "undefined"
  THEN Log([s EXCEPT !.flashLEDsTimer[k] = "undefined",
                     !.liveFlashTimers[k] = @ - 1],
           "clearInterval", k, 100)
  ELSE s

\* The toggle started at the maximum mask whether or not flashing is enabled.
ShowMask_AlwaysFlash(s, k, LEDMask) ==
  IF LEDMask = FullMask
  THEN StartFlashing(s, k)
  ELSE DeviceWrite(StopFlashing(s, k), k, LEDMask)

\* The new mask not written when it ends a toggle.
ShowMask_StopOnly(s, k, LEDMask) ==
  IF LEDMask = FullMask /\ s.enableRedlineFlashing[k]
  THEN StartFlashing(s, k)
  ELSE IF s.flashLEDsTimer[k] # "undefined"
       THEN StopFlashing(s, k)
       ELSE DeviceWrite(s, k, LEDMask)

\* The tail of setLEDsFromRPM: flash at the redline, else write the mask.
ShowMask(s, k, LEDMask) ==
  IF LEDMask = FullMask /\ s.enableRedlineFlashing[k]
  THEN StartFlashing(s, k)
  ELSE DeviceWrite(StopFlashing(s, k), k, LEDMask)

\* The early return on an unchanged mask, else record the mask and show it.
ApplyMask(s, k, LEDMask) ==
  IF SameMask(LEDMask, s.previousLEDMask[k])
  THEN [s EXCEPT !.last.mask = LEDMask]
  ELSE ShowMask([s EXCEPT !.previousLEDMask[k] = LEDMask,
                          !.last.mask = LEDMask], k, LEDMask)

setLEDsFromRPM(s, k, rpm) ==
  IF s.device[k] = "undefined" THEN s
  ELSE ApplyMask(RaisePeak(s, k, rpm), k,
                 LEDMaskOf(rpm, RaisedPeak(rpm, s.peakRPM[k])))

\* The peak-RPM hint of the record ignored.
AdoptHint_Ignore(s, k, carInfoPeakRPM) == s

\* if (carInfo.peakRPM != undefined) { this.peakRPM = carInfo.peakRPM; }
AdoptHint(s, k, carInfoPeakRPM) ==
  IF carInfoPeakRPM # undefined
  THEN [s EXCEPT !.peakRPM[k] = carInfoPeakRPM]
  ELSE s

\* processCarInfo after connectToWheelIfNeeded, unless that call exited.
SetLEDsAndAdoptHint(s, k, engineRPM, carInfoPeakRPM) ==
  IF s.proc # "running" THEN s
  ELSE AdoptHint(setLEDsFromRPM(s, k, engineRPM), k, carInfoPeakRPM)

processCarInfo(s, k, engineRPM, carInfoPeakRPM) ==
  SetLEDsAndAdoptHint(connectToWheelIfNeeded(s, k), k, engineRPM,
                      carInfoPeakRPM)

onConnected(s, k) ==
  connectToWheelIfNeeded([s EXCEPT !.peakRPM[k] = DefaultPeakRPM], k)

\* this.LEDsOn = !this.LEDsOn
ToggleLEDsOn(s, k) ==
  [s EXCEPT !.LEDsOn[k] = IF @ = "true" THEN "false" ELSE "true"]

flashLEDs(s, k) ==
  ToggleLEDsOn(IF s.LEDsOn[k] = "true"
               THEN DeviceWrite(s, k, 31)
               ELSE DeviceWrite(s, k, 0), k)

\* Number of device writes a callback has logged so far.
Writes(o, k) == Cardinality({i \in 1..Len(o) : o[i][1] = "write" /\ o[i][2] = k})

\* The mask a 'carInfo' computed and the number of device writes it issued
\* are kept for the claims about consecutive events.
RecordCarInfo(s, c) ==
  IF s.proc # "running" THEN s
  ELSE [s EXCEPT !.hist[c] =
          [mask |-> s.last.mask, writes |-> Writes(s.out, c)]]

\* emit('carInfo', ...) runs the controller's listener.
EmitCarInfo(s, c, engineRPM, carInfoPeakRPM) ==
  RecordCarInfo(
    processCarInfo(Log(s, "emit", c, "carInfo"), c, engineRPM, carInfoPeakRPM),
    c)

EmitConnected(s, c) == onConnected(Log(s, "emit", c, "connected"), c)

\* A 'disconnected' listener that also stops the toggle.
EmitDisconnected_StopFlashing(s, c) ==
  StopFlashing(Log(s, "emit", c, "disconnected"), c)

\* The 'disconnected' listener only clears a logging flag.
EmitDisconnected(s, c) == Log(s, "emit", c, "disconnected")

(***************************************************************************)
(* ACClient and CodemastersClient                                          *)
(***************************************************************************)
\* udpClient.send(message, port, host, errorFunction) reports a failed
\* transmission by calling errorFunction with the error, later.
QueueSendError(s) ==
  IF ~IsUndefined(s.udpClient["ac"]) /\ ~s.last.sendOk
  THEN [s EXCEPT !.pendingSendErrors = @ + 1]
  ELSE s

\* _sendHandshakeRequest(operationId): the 12-byte frame (0, 0, operationId),
\* sent with an error callback.
_sendHandshakeRequest(s, operationId) ==
  QueueSendError(sendUDPMessage(s, "ac", operationId))

\* The error callback of _sendHandshakeRequest, function (error) { if (error)
\* { this.disconnect(); } }: dgram calls it as a plain function (through
\* process.nextTick) or as a method of the send request, so `this` is not
\* the client, this.disconnect is undefined and the call throws a TypeError.
SendErrorCallback(s) == Throw([s EXCEPT !.pendingSendErrors = @ - 1])

\* this.handshakeStage = 0
ResetHandshakeStage(s) == [s EXCEPT !.handshakeStage = 0]

ACClient_disconnect(s) ==
  EmitDisconnected(
    ResetHandshakeStage(
      UDPGameClient_disconnect(
        sendUDPMessage(s, "ac", OPERATION_ID_SUBSCRIBE_DISMISS), "ac")),
    "ac")

CodemastersClient_disconnect(s) ==
  EmitDisconnected(UDPGameClient_disconnect(s, "cm"), "cm")

\* this.disconnect() is dispatched on the subclass.
disconnect(s, c) ==
  IF c = "ac" THEN ACClient_disconnect(s) ELSE CodemastersClient_disconnect(s)

\* Only the CodemastersClient is constructed with listenOnPort = true.
listenOnPort(c) == c = "cm"

\* this.udpClient = udp.createSocket('udp4')
CreateSocket(s, c) ==
  Log([s EXCEPT !.udpClient[c] = "socket", !.liveSockets[c] = @ + 1],
      "createSocket", c, 0)

\* if (this.listenOnPort) { this.udpClient.bind(...); }
BindIfListening(s, c) == IF listenOnPort(c) THEN Log(s, "bind", c, 0) ELSE s

\* The new socket created without tearing the old session down.
UDPGameClient_connect_NoTeardown(s, c) ==
  _setupReconnectTimer(BindIfListening(CreateSocket(s, c), c), c)

UDPGameClient_connect(s, c) ==
  _setupReconnectTimer(BindIfListening(CreateSocket(disconnect(s, c), c), c), c)

ACClient_connect(s) ==
  _sendHandshakeRequest(UDPGameClient_connect(s, "ac"), OPERATION_ID_HANDSHAKE)

CodemastersClient_connect(s) == UDPGameClient_connect(s, "cm")

connect(s, c) ==
  IF c = "ac" THEN ACClient_connect(s) ELSE CodemastersClient_connect(s)

\* Every tick taken for silence.
Silent_Always(s, c) == TRUE

\* The silence test made non-strict.
Silent_AtLeast(s, c) ==
  \/ s.lastMessageTimestamp[c] = undefined
  \/ s.now - s.lastMessageTimestamp[c] >= SilenceLimitMs

\* The condition of _reconnectIfNeeded.
Silent(s, c) ==
  \/ s.lastMessageTimestamp[c] = undefined
  \/ s.now - s.lastMessageTimestamp[c] > SilenceLimitMs

_reconnectIfNeeded(s, c) ==
  IF Silent(s, c) THEN connect(disconnect(s, c), c) ELSE s

\* A datagram: its length and the values of the fields the clients use.
ACDatagrams == [len : ACLens, rpm : ACRpms, peak : {0}]
CMDatagrams == [len : CMLens, rpm : CMRpmFields, peak : CMPeakFields]
Datagrams(c) == IF c = "ac" THEN ACDatagrams ELSE CMDatagrams

\* The datagrams tried when both clients run: a short and a full one per
\* protocol, below and at the redline for protocol A, at the redline for
\* protocol B.
MainDatagrams(c) ==
  IF c = "ac" THEN [len : {207, 328}, rpm : {3500, 6650}, peak : {0}]
  ELSE [len : {255, 256}, rpm : {665}, peak : {700}]

\* The first branch of ACClient._processUDPMessage, after handshakeStage++.
HandshakeResponse(s, d) ==
  IF ~_parseHandshakeResponse(d.len) THEN Throw(s)
  ELSE EmitConnected(
         _sendHandshakeRequest(s, OPERATION_ID_SUBSCRIBE_UPDATE), "ac")

ACClient_processUDPMessage(s, d) ==
  IF s.handshakeStage = 0
  THEN HandshakeResponse([s EXCEPT !.handshakeStage = @ + 1], d)
  ELSE IF ~_parseRTCarInfo(d.len) THEN Throw(s)
       ELSE EmitCarInfo([s EXCEPT !.last.rpm = d.rpm], "ac", d.rpm, undefined)

\* engineRPM and peakRPM are the two floats, each times 10.0.
CodemastersClient_processUDPMessage(s, d) ==
  IF ~_parseCodemasters(d.len) THEN Throw(s)
  ELSE EmitCarInfo([s EXCEPT !.last.rpm = d.rpm * 10, !.last.hint = d.peak * 10],
                   "cm", d.rpm * 10, d.peak * 10)

_processUDPMessage(s, c, d) ==
  IF c = "ac" THEN ACClient_processUDPMessage(s, d)
  ELSE CodemastersClient_processUDPMessage(s, d)

\* _this.lastMessageTimestamp = Date.now(), not reached when the line
\* before it threw or exited.
StampMessage(s, c) ==
  IF s.proc # "running" THEN s
  ELSE [s EXCEPT !.lastMessageTimestamp[c] = s.now]

\* The 'message' listener installed by UDPGameClient.connect.
OnMessage(s, c, d) == StampMessage(_processUDPMessage(s, c, d), c)

(***************************************************************************)
(* Actions: one per callback the event loop can run                        *)
(***************************************************************************)
\* new hid.HID(...) succeeds or throws; the choice only matters while the
\* controller has no device yet.
OpenOutcomes(k) == IF device[k] = "undefined" THEN BOOLEAN ELSE {TRUE}

\* Failed sends whose callback may be outstanding at once.
MaxPendingSendErrors == 1

\* A send with an error callback succeeds or fails; the choice only matters
\* when the callback about to run makes such a send.
SendOutcomes(sends) ==
  IF sends /\ pendingSendErrors < MaxPendingSendErrors THEN BOOLEAN ELSE {TRUE}

\* ACLeds.start()
Start(c) ==
  /\ proc = "running"
  /\ \E ok \in SendOutcomes(c = "ac") :
       Set(connect(Begin([NoStep EXCEPT !.op = "start", !.c = c,
                                        !.sendOk = ok]), c))

\* ACLeds.stop()
Stop(c) ==
  /\ proc = "running"
  /\ Set(disconnect(Begin([NoStep EXCEPT !.op = "stop", !.c = c]), c))

\* A datagram of the set D arrives on the open socket of client c.
Message(c, D) ==
  /\ proc = "running"
  /\ udpClient[c] = "socket"
  /\ \E d \in D, ok \in OpenOutcomes(c) :
       \E sent \in SendOutcomes(c = "ac" /\ handshakeStage = 0
                                 /\ _parseHandshakeResponse(d.len)) :
       Set(OnMessage(Begin([NoStep EXCEPT !.op = "message", !.c = c,
                                          !.len = d.len, !.openOk = ok,
                                          !.sendOk = sent]), c, d))

\* The interval is due again one period after this firing.
NextDue(s, c) == [s EXCEPT !.timerDue[c] = s.now + ReconnectIntervalMs]

\* The reconnect interval of client c fires.
WatchdogTick(c) ==
  /\ proc = "running"
  /\ reconnectTimer[c] = "active"
  /\ now >= timerDue[c]
  /\ \E ok \in SendOutcomes(c = "ac" /\ Silent(Cur, c)) :
       Set(_reconnectIfNeeded(
             NextDue(Begin([NoStep EXCEPT !.op = "watchdog", !.c = c,
                                          !.sendOk = ok]), c), c))

\* The error callback of a failed send runs.
SendError ==
  /\ proc = "running"
  /\ pendingSendErrors > 0
  /\ Set(SendErrorCallback(Begin([NoStep EXCEPT !.op = "sendError"])))

\* A flash interval of controller k fires.
FlashTick(k) ==
  /\ proc = "running"
  /\ liveFlashTimers[k] > 0
  /\ Set(flashLEDs(Begin([NoStep EXCEPT !.op = "flash", !.c = k]), k))

\* Date.now() moves on.
Elapse(s) == [s EXCEPT !.now = @ + TimeStep]

\* Time passes; a due interval fires, and the error callback of a failed
\* send (queued with process.nextTick or on the send's completion) runs,
\* before the clock moves on.
AdvanceTime(maxNow) ==
  /\ proc = "running"
  /\ now + TimeStep <= maxNow
  /\ pendingSendErrors = 0
  /\ \A c \in Clients : reconnectTimer[c] = "active" => now < timerDue[c]
  /\ Set(Elapse(Begin([NoStep EXCEPT !.op = "time"])))

NoHist == [mask |-> undefined, writes |-> 0]

Init ==
  /\ proc = "running"
  /\ now = 0
  /\ udpClient = [c \in Clients |-> "undefined"]
  /\ reconnectTimer = [c \in Clients |-> "undefined"]
  /\ timerDue = [c \in Clients |-> 0]
  /\ lastMessageTimestamp = [c \in Clients |-> undefined]
  /\ handshakeStage = 0
  /\ device = [k \in Clients |-> "undefined"]
  /\ peakRPM = [k \in Clients |-> undefined]
  /\ flashLEDsTimer = [k \in Clients |-> "undefined"]
  /\ liveFlashTimers = [k \in Clients |-> 0]
  /\ previousLEDMask = [k \in Clients |-> undefined]
  /\ LEDsOn = [k \in Clients |-> "undefined"]
  /\ enableRedlineFlashing \in [Clients -> BOOLEAN]
  /\ hidOpens = 0
  /\ liveSockets = [c \in Clients |-> 0]
  /\ liveReconnectTimers = [c \in Clients |-> 0]
  /\ pendingSendErrors = 0
  /\ lastWrite = [k \in Clients |-> undefined]
  /\ hist = [k \in Clients |-> NoHist]
  /\ last = NoStep
  /\ out = <<>>

\* The main entry point: both clients and both controllers.
Next ==
  \/ \E c \in Clients : Start(c)
  \/ \E c \in Clients : Stop(c)
  \/ \E c \in Clients : Message(c, MainDatagrams(c))
  \/ \E c \in Clients : WatchdogTick(c)
  \/ \E k \in Clients : FlashTick(k)
  \/ SendError
  \/ AdvanceTime(MainMaxNow)

Spec == Init /\ [][Next]_vars

\* One client and its controller running alone, either of the two, with
\* the full input sets.  The two client/controller pairs share no field, so
\* what one pair does alone is what it does next to the other.
StartAlone(c) ==
  /\ \A o \in Clients \ {c} : udpClient[o] = "undefined"
  /\ Start(c)

\* stop() of the pair that runs, or of either pair before any was started.
StopAlone(c) ==
  /\ \A o \in Clients \ {c} : udpClient[o] = "undefined"
  /\ Stop(c)

NextOne ==
  \/ \E c \in Clients : StartAlone(c)
  \/ \E c \in Clients : StopAlone(c)
  \/ \E c \in Clients : Message(c, Datagrams(c))
  \/ \E c \in Clients : WatchdogTick(c)
  \/ \E k \in Clients : FlashTick(k)
  \/ SendError
  \/ AdvanceTime(MaxNow)

SpecOne == Init /\ [][NextOne]_vars

TypeOK ==
  /\ proc \in {"running", "crashed", "exited"}
  /\ handshakeStage \in {0, 1}
  /\ \A c \in Clients : udpClient[c] \in {"undefined", "null", "socket"}
  /\ \A k \in Clients : previousLEDMask[k] \in {undefined, 1, 3, 7, 15, 31}

(***************************************************************************)
(* Reading the log of the latest callback                                  *)
(***************************************************************************)
\* Positions of the effects of a kind (and value) of client or controller c.
At(o, kind, c) == {i \in 1..Len(o) : o[i][1] = kind /\ o[i][2] = c}
AtV(o, kind, c, v) == {i \in At(o, kind, c) : o[i][3] = v}
Emits(o, c, e) == Cardinality(AtV(o, "emit", c, e))
Sends(o, c, operationId) == Cardinality(AtV(o, "send", c, operationId))
NoEmit(o) == \A i \in 1..Len(o) : o[i][1] # "emit"
NoSend(o) == \A i \in 1..Len(o) : o[i][1] # "send"

\* The size of the fixed layout client c decodes in handshake stage st.
FixedLayoutSize(c, st) ==
  IF c = "cm" THEN LayoutSize(CodemastersLayout, 1)
  ELSE IF st = 0 THEN LayoutSize(HandshakeResponseLayout, 1)
  ELSE LayoutSize(RTCarInfoLayout, 1)

(***************************************************************************)
(* C1                                                                      *)
(***************************************************************************)
\* C1: a datagram shorter than the fixed layout of its protocol is
\* discarded: the process keeps running, the handshake stage, the socket and
\* the watchdog are as before the datagram, and no event is emitted.
C1_ShortDatagramDiscarded ==
  [][(/\ last'.op = "message"
      /\ last'.len < FixedLayoutSize(last'.c, handshakeStage))
       => /\ proc' = "running"
          /\ handshakeStage' = handshakeStage
          /\ udpClient' = udpClient
          /\ reconnectTimer' = reconnectTimer
          /\ timerDue' = timerDue
          /\ NoEmit(out')]_vars

(***************************************************************************)
(* C2                                                                      *)
(***************************************************************************)
\* The callback was a watchdog tick of client c that did a full
\* disconnect + connect: the old socket closed, then a new socket created
\* and a new watchdog armed; for protocol A the client ends in handshake
\* stage 0 with exactly one handshake request sent after the new socket
\* was created.
ReconnectCycle(o, c, stage, timer, socket) ==
  /\ \E i \in At(o, "close", c) : \E j \in At(o, "createSocket", c) : i < j
  /\ socket = "socket"
  /\ timer = "active"
  /\ c = "ac" =>
       /\ stage = 0
       /\ Sends(o, c, OPERATION_ID_HANDSHAKE) = 1
       /\ \A i \in AtV(o, "send", c, OPERATION_ID_HANDSHAKE) :
            \E j \in At(o, "createSocket", c) : j < i

\* C2 as stated: at a watchdog tick of a client that has received no
\* datagram for at least 2000 ms (or none at all), the client performs a
\* full disconnect + connect cycle.
C2_ReconnectAtOrAfter2000 ==
  [][\A c \in Clients :
       (/\ last'.op = "watchdog" /\ last'.c = c
        /\ \/ lastMessageTimestamp[c] = undefined
           \/ now - lastMessageTimestamp[c] >= 2000)
         => ReconnectCycle(out', c, handshakeStage', reconnectTimer'[c],
                           udpClient'[c])]_vars

\* C2 amended: at a watchdog tick of a client that has never received a
\* datagram, or whose last datagram is more than 2000 ms old, the client
\* performs a full disconnect + connect cycle (for protocol A ending in
\* handshake stage 0 with one handshake request on the new socket); at a
\* tick where the last datagram is at most 2000 ms old nothing is done.
C2_ReconnectAfterMoreThan2000 ==
  [][\A c \in Clients :
       (last'.op = "watchdog" /\ last'.c = c) =>
         IF \/ lastMessageTimestamp[c] = undefined
            \/ now - lastMessageTimestamp[c] > 2000
         THEN ReconnectCycle(out', c, handshakeStage', reconnectTimer'[c],
                             udpClient'[c])
         ELSE out' = <<>> /\ udpClient' = udpClient
              /\ handshakeStage' = handshakeStage]_vars

\* A watchdog tick has reconnected the handshake client after its last
\* datagram had become more than 2000 ms old.
C2_Witness ==
  /\ last.op = "watchdog" /\ last.c = "ac"
  /\ lastMessageTimestamp["ac"] # undefined
  /\ now - lastMessageTimestamp["ac"] > 2000
  /\ ReconnectCycle(out, "ac", handshakeStage, reconnectTimer["ac"],
                    udpClient["ac"])

(***************************************************************************)
(* C3                                                                      *)
(***************************************************************************)
\* C3: for protocol A the first datagram after connect() moves the client
\* from stage 0 to stage 1, sends exactly one subscribe request and then
\* emits exactly one 'connected' (and no 'carInfo'); every later datagram
\* emits exactly one 'carInfo', no 'connected', and sends nothing.
C3_HandshakeThenCarInfo ==
  [][(last'.op = "message" /\ last'.c = "ac") =>
       IF handshakeStage = 0
       THEN /\ handshakeStage' = 1
            /\ Sends(out', "ac", OPERATION_ID_SUBSCRIBE_UPDATE) = 1
            /\ Cardinality(At(out', "send", "ac")) = 1
            /\ Emits(out', "ac", "connected") = 1
            /\ Emits(out', "ac", "carInfo") = 0
            /\ \A i \in At(out', "send", "ac") :
                 \A j \in At(out', "emit", "ac") : i < j
       ELSE /\ handshakeStage' = 1
            /\ Emits(out', "ac", "carInfo") = 1
            /\ Emits(out', "ac", "connected") = 0
            /\ NoSend(out')]_vars

(***************************************************************************)
(* C4                                                                      *)
(***************************************************************************)
\* The latest callback delivered a 'carInfo' to controller k and ran to its
\* end (the mask was computed).
CarInfoStep(l, k) == l.op = "message" /\ l.c = k /\ l.mask # 0

\* C4 as stated: of two consecutive 'carInfo' events of a controller with
\* equal computed masks, the first writes to the device once and the second
\* issues no device command.
C4_EqualPairWritesOnce ==
  [][\A k \in Clients :
       (CarInfoStep(last', k) /\ hist'[k].mask = hist[k].mask) =>
         /\ hist[k].writes = 1
         /\ hist'[k].writes = 0]_vars

\* C4 amended: a 'carInfo' whose computed mask equals the recorded previous
\* mask issues no device command and starts or stops no timer, so two
\* consecutive 'carInfo' events with equal masks produce at most one device
\* write, and none by the second; a 'carInfo' whose mask differs from the
\* recorded one issues exactly one write, or none and starts the toggle when
\* the mask is 0b11111 and flashing is enabled.
C4_RedundantWriteSuppressed ==
  [][\A k \in Clients :
       CarInfoStep(last', k) =>
         IF last'.mask = previousLEDMask[k]
         THEN /\ Writes(out', k) = 0
              /\ At(out', "setInterval", k) = {}
              /\ At(out', "clearInterval", k) = {}
              /\ hist'[k].mask = hist[k].mask
              /\ hist[k].writes + hist'[k].writes <= 1
         ELSE IF last'.mask = FullMask /\ enableRedlineFlashing[k]
              THEN Writes(out', k) = 0 /\ At(out', "setInterval", k) # {}
              ELSE Writes(out', k) = 1
                   /\ AtV(out', "write", k, last'.mask) # {}]_vars

\* A 'carInfo' has just been suppressed: its mask, 0b00111, is the recorded
\* one and the callback did nothing but emit the event.
C4_Witness ==
  \E k \in Clients :
    /\ CarInfoStep(last, k)
    /\ out = <<<<"emit", k, "carInfo">>>>
    /\ previousLEDMask[k] = 7
    /\ last.mask = 7

(***************************************************************************)
(* C5                                                                      *)
(***************************************************************************)
\* C5: with flashing enabled, a 'carInfo' that takes the mask to 0b11111
\* starts one toggle interval of 100 ms and writes nothing; every toggle
\* tick writes exactly one command, 31 or 0, the opposite of the tick
\* before; no 'carInfo' writes a static mask while the mask stays 0b11111;
\* and the first 'carInfo' with a lower mask cancels the toggle and writes
\* the new mask once.
C5_RedlineToggle ==
  [][\A k \in Clients : enableRedlineFlashing[k] =>
       /\ (CarInfoStep(last', k) /\ last'.mask = FullMask
           /\ previousLEDMask[k] # FullMask) =>
            /\ liveFlashTimers[k] = 0 /\ liveFlashTimers'[k] = 1
            /\ flashLEDsTimer'[k] = "active"
            /\ AtV(out', "setInterval", k, 100) # {}
            /\ Writes(out', k) = 0
       /\ (CarInfoStep(last', k) /\ last'.mask = FullMask
           /\ previousLEDMask[k] = FullMask) =>
            /\ liveFlashTimers'[k] = 1
            /\ Writes(out', k) = 0
       /\ (last'.op = "flash" /\ last'.c = k) =>
            /\ previousLEDMask[k] = FullMask
            /\ Len(out') = 1 /\ Writes(out', k) = 1
            /\ out'[1][3] \in {0, 31}
            /\ (last.op = "flash" /\ last.c = k) => out'[1][3] = 31 - out[1][3]
       /\ (CarInfoStep(last', k) /\ last'.mask # FullMask
           /\ previousLEDMask[k] = FullMask) =>
            /\ liveFlashTimers'[k] = 0
            /\ flashLEDsTimer'[k] = "undefined"
            /\ Writes(out', k) = 1
            /\ AtV(out', "write", k, last'.mask) # {}]_vars

\* A 'carInfo' below the maximum has just cancelled a running toggle.
C5_Witness ==
  \E k \in Clients :
    /\ enableRedlineFlashing[k]
    /\ CarInfoStep(last, k)
    /\ last.mask < FullMask
    /\ At(out, "clearInterval", k) # {}
    /\ LEDsOn[k] = "false"

(***************************************************************************)
(* C6                                                                      *)
(***************************************************************************)
\* The bar graph of the fraction rpm / peak, for peak > 0: bit 0 always,
\* bit 1 above 1/5, bit 2 above 2/5, bit 3 above 13/20, bit 4 above 9/10.
BarGraph(rpm, peak) ==
  1 + (IF 5 * rpm > peak THEN 2 ELSE 0)
    + (IF 5 * rpm > 2 * peak THEN 4 ELSE 0)
    + (IF 20 * rpm > 13 * peak THEN 8 ELSE 0)
    + (IF 10 * rpm > 9 * peak THEN 16 ELSE 0)

\* C6: the mask setLEDsFromRPM computes and records for a 'carInfo' is the
\* bar graph of rpm over the peak it divides by; it is 0b00001 for rpm 0,
\* 0b00111 at half the peak, 0b11111 at 95% of the peak, and an rpm above
\* the tracked peak makes rpm the peak and gives 0b11111.
C6_MaskIsBarGraph ==
  [][\A k \in Clients :
       CarInfoStep(last', k) =>
         /\ previousLEDMask'[k] = last'.mask
         /\ last'.denom > 0 => last'.mask = BarGraph(last'.rpm, last'.denom)
         /\ last'.rpm = 0 => last'.mask = 1
         /\ (last'.denom > 0 /\ 2 * last'.rpm = last'.denom) => last'.mask = 7
         /\ (last'.denom > 0 /\ 100 * last'.rpm = 95 * last'.denom)
              => last'.mask = 31
         /\ (peakRPM[k] # undefined /\ last'.rpm > peakRPM[k]) =>
              /\ last'.denom = last'.rpm
              /\ last'.mask = 31
              /\ last'.hint = undefined => peakRPM'[k] = last'.rpm]_vars

\* A 'carInfo' with rpm 8000 has raised the peak from 7000 and lit all LEDs.
C6_Witness ==
  /\ CarInfoStep(last, "ac")
  /\ last.rpm = 8000 /\ last.denom = 8000 /\ peakRPM["ac"] = 8000
  /\ previousLEDMask["ac"] = 31

(***************************************************************************)
(* C7                                                                      *)
(***************************************************************************)
\* C7: of two 'carInfo' events of a controller computed over the same peak,
\* with rpm at most that peak, the one with the larger rpm has the larger or
\* equal mask; every computed mask has bit 0 set; and the recorded previous
\* mask is always unset or one of 1, 3, 7, 15, 31, also while the peak is
\* unset or 0.
C7_MaskMonotoneCumulative ==
  [][\A k \in Clients :
       /\ previousLEDMask'[k] \in {undefined, 1, 3, 7, 15, 31}
       /\ CarInfoStep(last', k) => last'.mask % 2 = 1
       /\ (/\ CarInfoStep(last, k) /\ CarInfoStep(last', k)
           /\ last'.denom = last.denom
           /\ last.rpm <= last'.rpm
           /\ last.denom # undefined => last'.rpm <= last.denom)
            => last.mask <= last'.mask]_vars

\* The mask 0b00001 has been recorded from a 'carInfo' with a positive rpm
\* computed while the peak was still unset.
C7_Witness ==
  /\ CarInfoStep(last, "cm")
  /\ last.denom = undefined
  /\ last.rpm > 0
  /\ previousLEDMask["cm"] = 1

(***************************************************************************)
(* C8                                                                      *)
(***************************************************************************)
\* C8 as stated: peakRPM of a controller never decreases, but for the reset
\* to 7000 on a 'connected' event.
C8_PeakNeverDecreases ==
  [][\A k \in Clients :
       peakRPM'[k] < peakRPM[k] =>
         /\ Emits(out', k, "connected") = 1
         /\ peakRPM'[k] = DefaultPeakRPM]_vars

\* C8 amended: peakRPM of the handshake variant's controller never
\* decreases, but for the reset to 7000 on a 'connected' event; peakRPM of
\* the push variant's controller is lowered only by a 'carInfo' whose
\* peak-RPM hint is below it, and then equals that hint.
C8_PeakDecreasesOnlyByResetOrHint ==
  [][/\ peakRPM'["ac"] < peakRPM["ac"] =>
          /\ Emits(out', "ac", "connected") = 1
          /\ peakRPM'["ac"] = DefaultPeakRPM
     /\ peakRPM'["cm"] < peakRPM["cm"] =>
          /\ CarInfoStep(last', "cm")
          /\ last'.hint # undefined
          /\ peakRPM'["cm"] = last'.hint]_vars

\* The handshake controller holds a peak of 8000 after a 'carInfo' with a
\* lower rpm.
C8_Witness ==
  /\ CarInfoStep(last, "ac")
  /\ peakRPM["ac"] = 8000
  /\ last.rpm < 8000

(***************************************************************************)
(* C9                                                                      *)
(***************************************************************************)
Max(a, b) == IF a >= b THEN a ELSE b

\* C9: after a 'carInfo' that carries a peak-RPM hint peakRPM is that hint;
\* after one that carries none peakRPM is the larger of the previous peak and
\* rpm; a 'connected' event sets peakRPM to 7000, so the handshake
\* controller's peak is never below 7000 once set.
C9_PeakTracking ==
  [][\A k \in Clients :
       /\ CarInfoStep(last', k) =>
            IF last'.hint # undefined
            THEN peakRPM'[k] = last'.hint
            ELSE /\ peakRPM[k] # undefined
                 /\ peakRPM'[k] = Max(peakRPM[k], last'.rpm)
       /\ Emits(out', k, "connected") > 0 => peakRPM'[k] = DefaultPeakRPM
       /\ k = "ac" => (peakRPM'[k] = undefined \/ peakRPM'[k] >= DefaultPeakRPM)
    ]_vars

\* The push controller has adopted a hint of 6000 from a 'carInfo' whose rpm
\* is above it.
C9_Witness ==
  /\ CarInfoStep(last, "cm")
  /\ last.hint = 6000
  /\ last.rpm > 6000
  /\ peakRPM["cm"] = 6000

(***************************************************************************)
(* C10                                                                     *)
(***************************************************************************)
\* C10: over the whole run the device is opened at most once, and a
\* controller writes to the device only after a successful open.
C10_DeviceOpenedAtMostOnce ==
  /\ hidOpens <= 1
  /\ \A k \in Clients : Writes(out, k) > 0 => hidOpens >= 1 /\ device[k] = "hid"

(***************************************************************************)
(* C11                                                                     *)
(***************************************************************************)
\* The fields of client c, but for the time its interval is next due.
ClientState(s, c) ==
  <<s.udpClient[c], s.reconnectTimer[c], s.lastMessageTimestamp[c],
    s.liveSockets[c], s.liveReconnectTimers[c],
    IF c = "ac" THEN s.handshakeStage ELSE 0>>

\* The state the step arrives in, as a record.
CurNext ==
  [udpClient |-> udpClient', reconnectTimer |-> reconnectTimer',
   lastMessageTimestamp |-> lastMessageTimestamp',
   liveSockets |-> liveSockets', liveReconnectTimers |-> liveReconnectTimers',
   handshakeStage |-> handshakeStage']

\* C11: disconnect() on a connected protocol-A client sends exactly one
\* dismiss frame (operation id 3) and then closes the socket, leaves handshake
\* stage 0 and no socket, and has stopped the watchdog; while the client has
\* no socket no watchdog tick fires and nothing but connect() sends a frame or
\* creates a socket; disconnect() on a client without a socket sends nothing,
\* closes nothing and leaves the client's fields as they were.
C11_DisconnectStopsSession ==
  [][/\ (last'.op = "stop" /\ last'.c = "ac" /\ udpClient["ac"] = "socket") =>
          /\ Sends(out', "ac", OPERATION_ID_SUBSCRIBE_DISMISS) = 1
          /\ Cardinality(At(out', "send", "ac")) = 1
          /\ Cardinality(At(out', "close", "ac")) = 1
          /\ \A i \in At(out', "send", "ac") :
               \A j \in At(out', "close", "ac") : i < j
          /\ udpClient'["ac"] = "null"
          /\ liveSockets'["ac"] = 0
          /\ handshakeStage' = 0
          /\ reconnectTimer'["ac"] # "active"
          /\ liveReconnectTimers'["ac"] = 0
     /\ (last'.op = "stop" /\ last'.c = "ac" /\ udpClient["ac"] # "socket") =>
          /\ NoSend(out')
          /\ At(out', "close", "ac") = {}
          /\ ClientState(CurNext, "ac") = ClientState(Cur, "ac")
     /\ (udpClient["ac"] # "socket" /\ ~(last'.op = "start" /\ last'.c = "ac")) =>
          /\ ~(last'.op = "watchdog" /\ last'.c = "ac")
          /\ At(out', "send", "ac") = {}
          /\ At(out', "createSocket", "ac") = {}
          /\ udpClient'["ac"] = udpClient["ac"]]_vars

\* stop() has just disconnected a protocol-A client that had received
\* datagrams: dismiss frame, watchdog cleared, socket closed, event emitted.
C11_Witness ==
  /\ last.op = "stop" /\ last.c = "ac"
  /\ lastMessageTimestamp["ac"] # undefined
  /\ out = <<<<"send", "ac", OPERATION_ID_SUBSCRIBE_DISMISS>>,
             <<"clearInterval", "ac", ReconnectIntervalMs>>,
             <<"close", "ac", 0>>,
             <<"emit", "ac", "disconnected">>>>
  /\ udpClient["ac"] = "null"
  /\ reconnectTimer["ac"] = "null"

(***************************************************************************)
(* C12                                                                     *)
(***************************************************************************)
\* Every effect of the first kind comes before every effect of the second.
AllBefore(o, first, second) == \A i \in first : \A j \in second : i < j

\* At most one socket and one reconnect interval of client c are live, they
\* are the ones the client's fields hold, and the interval runs only while
\* the socket is open.
OneSession(c) ==
  /\ liveSockets[c] = (IF udpClient[c] = "socket" THEN 1 ELSE 0)
  /\ liveReconnectTimers[c] = (IF reconnectTimer[c] = "active" THEN 1 ELSE 0)
  /\ reconnectTimer[c] = "active" => udpClient[c] = "socket"

\* The callback logged in o tore the old session of client c down before it
\* created the new one.
TeardownBeforeSetup(o, c) ==
  /\ Cardinality(At(o, "close", c)) = 1
  /\ Cardinality(At(o, "createSocket", c)) = 1
  /\ Cardinality(AtV(o, "clearInterval", c, ReconnectIntervalMs)) = 1
  /\ Cardinality(AtV(o, "setInterval", c, ReconnectIntervalMs)) = 1
  /\ AllBefore(o, At(o, "close", c), At(o, "createSocket", c))
  /\ AllBefore(o, AtV(o, "clearInterval", c, ReconnectIntervalMs),
               At(o, "createSocket", c))
  /\ AllBefore(o, At(o, "createSocket", c),
               AtV(o, "setInterval", c, ReconnectIntervalMs))
  /\ c = "ac" =>
       /\ Sends(o, c, OPERATION_ID_SUBSCRIBE_DISMISS) = 1
       /\ AllBefore(o, AtV(o, "send", c, OPERATION_ID_SUBSCRIBE_DISMISS),
                    At(o, "close", c))

\* C12: in every reachable state each client has at most one open socket and
\* at most one active watchdog interval, and the interval is active only
\* while a socket is open; every callback that creates a socket for a client
\* that has one (connect() on a connected client, a watchdog reconnect)
\* first closes the old socket and clears the old interval, and for protocol
\* A sends the dismiss frame before the close.
C12_OneSessionPerClient ==
  /\ [](\A c \in Clients : OneSession(c))
  /\ [][\A c \in Clients :
          (udpClient[c] = "socket" /\ At(out', "createSocket", c) # {})
            => TeardownBeforeSetup(out', c)]_vars

\* start() on the connected push client has just replaced its session.
C12_Witness ==
  /\ last.op = "start" /\ last.c = "cm"
  /\ out = <<<<"clearInterval", "cm", ReconnectIntervalMs>>,
             <<"close", "cm", 0>>,
             <<"emit", "cm", "disconnected">>,
             <<"createSocket", "cm", 0>>,
             <<"bind", "cm", 0>>,
             <<"setInterval", "cm", ReconnectIntervalMs>>>>
  /\ liveSockets["cm"] = 1
  /\ liveReconnectTimers["cm"] = 1

(***************************************************************************)
(* C13                                                                     *)
(***************************************************************************)
\* C13: when the failure of a sent frame is reported, the sending client is
\* disconnected (no socket, no watchdog, handshake stage 0) and the process
\* keeps running.
C13_SendFailureDisconnects ==
  [][last'.op = "sendError" =>
       /\ proc' = "running"
       /\ udpClient'["ac"] # "socket"
       /\ reconnectTimer'["ac"] # "active"
       /\ handshakeStage' = 0]_vars

(***************************************************************************)
(* C14                                                                     *)
(***************************************************************************)
\* C14: the push client never sends a frame and never emits 'connected',
\* whatever the callback; every datagram it receives emits exactly one
\* 'carInfo'; and its controller's peakRPM changes only in a 'carInfo', never
\* by a reset to the default.
C14_PushClientNoHandshake ==
  [][/\ At(out', "send", "cm") = {}
     /\ Emits(out', "cm", "connected") = 0
     /\ (last'.op = "message" /\ last'.c = "cm") =>
          Emits(out', "cm", "carInfo") = 1
     /\ peakRPM'["cm"] # peakRPM["cm"] =>
          /\ CarInfoStep(last', "cm")
          /\ peakRPM'["cm"] \in {last'.hint, last'.rpm}]_vars

(***************************************************************************)
(* C15                                                                     *)
(***************************************************************************)
\* C15: a client emits 'disconnected' only when an open connection is
\* dropped: connect() or disconnect() of a client that has no socket emits
\* none, a watchdog tick that reconnects emits exactly one, and no callback
\* emits more 'disconnected' events than it closes sockets.
C15_DisconnectedOnlyOnDrop ==
  [][\A c \in Clients :
       /\ (last'.op \in {"start", "stop"} /\ last'.c = c
           /\ udpClient[c] # "socket") =>
            Emits(out', c, "disconnected") = 0
       /\ (last'.op = "watchdog" /\ last'.c = c
           /\ At(out', "close", c) # {}) =>
            Emits(out', c, "disconnected") = 1
       /\ Emits(out', c, "disconnected") <= Cardinality(At(out', "close", c))
    ]_vars

(***************************************************************************)
(* C16                                                                     *)
(***************************************************************************)
\* C16: the mask computed for a push record (rpm, hint) with a positive
\* hint is the bar graph of rpm over that record's own hint, whatever peak
\* the earlier records left.
C16_MaskUsesOwnHint ==
  [][(CarInfoStep(last', "cm") /\ last'.hint > 0) =>
       last'.mask = BarGraph(last'.rpm, last'.hint)]_vars

(***************************************************************************)
(* C17                                                                     *)
(***************************************************************************)
\* C17: in every reachable state a controller has at most one flash
\* interval running, the one its flashLEDsTimer field holds, and it runs if
\* and only if flashing is enabled and the recorded previous mask is 0b11111.
C17_OneFlashTimer ==
  \A k \in Clients :
    /\ liveFlashTimers[k] <= 1
    /\ liveFlashTimers[k] = (IF flashLEDsTimer[k] = "active" THEN 1 ELSE 0)
    /\ flashLEDsTimer[k] = "active" <=>
         (enableRedlineFlashing[k] /\ previousLEDMask[k] = FullMask)

\* A controller that had flashed and then shown a lower mask has re-entered
\* the maximum mask: one toggle runs again, no tick of it has written yet.
C17_Witness ==
  \E k \in Clients :
    /\ CarInfoStep(last, k)
    /\ previousLEDMask[k] = FullMask
    /\ flashLEDsTimer[k] = "active"
    /\ liveFlashTimers[k] = 1
    /\ LEDsOn[k] # "undefined"
    /\ lastWrite[k] \in {1, 3, 7, 15}

(***************************************************************************)
(* C18                                                                     *)
(***************************************************************************)
\* C18: a watchdog tick of a client whose last datagram is at most 2000 ms
\* old does nothing: it sends no frame and emits no event, and the socket,
\* the watchdog interval and the handshake stage are as before; so a
\* subscribed client that keeps receiving datagrams stays subscribed over
\* the tick.
C18_NoSpuriousReconnect ==
  [][\A c \in Clients :
       (/\ last'.op = "watchdog" /\ last'.c = c
        /\ lastMessageTimestamp[c] # undefined
        /\ now - lastMessageTimestamp[c] <= SilenceLimitMs)
         => /\ out' = <<>>
            /\ ClientState(CurNext, c) = ClientState(Cur, c)
            /\ udpClient'[c] = "socket"
            /\ reconnectTimer'[c] = "active"
            /\ (c = "ac" /\ handshakeStage = 1) => handshakeStage' = 1]_vars

\* A watchdog tick has just left alone a subscribed protocol-A client whose
\* last datagram arrived 1000 ms before the tick.
C18_Witness ==
  /\ last.op = "watchdog" /\ last.c = "ac"
  /\ out = <<>>
  /\ handshakeStage = 1
  /\ udpClient["ac"] = "socket"
  /\ now - lastMessageTimestamp["ac"] = TimeStep
  /\ timerDue["ac"] = now + ReconnectIntervalMs

(***************************************************************************)
(* C19                                                                     *)
(***************************************************************************)
\* The indicator state of controller k.
IndicatorState(s, k) ==
  <<s.peakRPM[k], s.previousLEDMask[k], s.LEDsOn[k], s.flashLEDsTimer[k],
    s.liveFlashTimers[k], s.device[k], s.lastWrite[k]>>

\* The indicator state the step arrives in.
IndicatorNext ==
  [peakRPM |-> peakRPM', previousLEDMask |-> previousLEDMask',
   LEDsOn |-> LEDsOn', flashLEDsTimer |-> flashLEDsTimer',
   liveFlashTimers |-> liveFlashTimers', device |-> device',
   lastWrite |-> lastWrite']

\* C19: stop(), start() and a watchdog tick, with the 'disconnected' events
\* they emit, leave peakRPM, the recorded previous mask, the flash phase and
\* the flash interval of every controller as they were and write nothing to
\* the device; a flash interval is cleared only by a 'carInfo' with a mask
\* below 0b11111, and while it runs each of its ticks writes one command,
\* also when the client has no socket.
C19_DisconnectLeavesIndicator ==
  [][\A k \in Clients :
       /\ last'.op \in {"stop", "start", "watchdog"} =>
            /\ IndicatorState(IndicatorNext, k) = IndicatorState(Cur, k)
            /\ Writes(out', k) = 0
       /\ liveFlashTimers'[k] < liveFlashTimers[k] =>
            /\ CarInfoStep(last', k)
            /\ last'.mask < FullMask
       /\ (last'.op = "flash" /\ last'.c = k /\ udpClient[k] # "socket") =>
            /\ Writes(out', k) = 1
            /\ flashLEDsTimer'[k] = "active"]_vars

\* The toggle of a controller has fired and written after its client was
\* disconnected by stop().
C19_Witness ==
  \E k \in Clients :
    /\ last.op = "flash" /\ last.c = k
    /\ udpClient[k] = "null"
    /\ reconnectTimer[k] = "null"
    /\ flashLEDsTimer[k] = "active"
    /\ out = <<<<"write", k, 31>>>>

(***************************************************************************)
(* C20                                                                     *)
(***************************************************************************)
\* C20: in every reachable state, for each controller whose flash interval
\* is not active and that has a previous mask recorded, the mask of the last
\* command the controller wrote to the device is the recorded previous mask.
C20_DeviceShowsRecordedMask ==
  \A k \in Clients :
    (flashLEDsTimer[k] # "active" /\ previousLEDMask[k] # undefined)
      => lastWrite[k] = previousLEDMask[k]

\* After a toggle was ended by a lower mask, a 'carInfo' with that same mask
\* has been suppressed: nothing written, and the device still shows it.
C20_Witness ==
  \E k \in Clients :
    /\ CarInfoStep(last, k)
    /\ Writes(out, k) = 0
    /\ LEDsOn[k] # "undefined"
    /\ flashLEDsTimer[k] = "undefined"
    /\ previousLEDMask[k] = 15
    /\ lastWrite[k] = 15

====
